---- MODULE Spec2Model ----
(***************************************************************************)
(* manatools.services.Services: the cached systemd / SysV service          *)
(* registry of python-manatools, as a state machine.                       *)
(*                                                                         *)
(* Python strings are sequences of one-character strings, so that find,    *)
(* slicing, basename and concatenation are computed as Python computes     *)
(* them.  The object's attributes are the variables; every public method   *)
(* (and every attribute a caller may assign) is one action.  What the      *)
(* outside world answers (the bus, the filesystem, the helper programs)    *)
(* is an input of the action, recorded in `last` with the call's outcome.  *)
(***************************************************************************)
EXTENDS Integers, Sequences, FiniteSets

VARIABLES
    include_static_services,  \* self.include_static_services
    _reload,                  \* self._reload: TRUE = the next read fetches
    _services,                \* self._services: base name -> entry
    _xinetd_services,         \* self._xinetd_services: name -> BOOLEAN
    _bus,                     \* self._bus: FALSE = None, TRUE = a DBus handle
    __manager,                \* self.__manager: FALSE = None, TRUE = a Manager
    calls,                    \* calls the last operation made to the outside
    last,                     \* the last operation, its inputs and its outcome
    hist                      \* history of the reads of service_info

vars == <<include_static_services, _reload, _services, _xinetd_services,
          _bus, __manager, calls, last, hist>>

----------------------------------------------------------------------------
(* Bounds *)

MaxUnitFiles == 2

----------------------------------------------------------------------------
(* String literals of the source and of the environment *)

DotService == <<".", "s", "e", "r", "v", "i", "c", "e">>
DotSocket == <<".", "s", "o", "c", "k", "e", "t">>
At == <<"@">>
Slash == <<"/">>
Colon == <<":">>
InitDir == <<"/", "e", "t", "c", "/", "r", "c", ".", "d", "/",
             "i", "n", "i", "t", ".", "d", "/">>
UnitDir == <<"/", "u", "s", "r", "/", "l", "i", "b", "/",
             "s", "y", "s", "t", "e", "m", "d", "/",
             "s", "y", "s", "t", "e", "m", "/">>
Placeholder == <<"-", "-", "-">>

N_xinetd == <<"x", "i", "n", "e", "t", "d">>
N_sshd == <<"s", "s", "h", "d">>
N_getty == <<"g", "e", "t", "t", "y", "@", "t", "t", "y", "1">>
N_cups == <<"c", "u", "p", "s">>
N_ftp == <<"f", "t", "p">>

----------------------------------------------------------------------------
(* Python string and dict operations *)

SetMin(S) == CHOOSE x \in S : \A y \in S : x <= y
SetMax(S) == CHOOSE x \in S : \A y \in S : x >= y

\* sub occurs in s at 0-based index i
OccursAt(s, sub, i) == \A k \in 1..Len(sub) : s[i + k] = sub[k]

\* s.find(sub): the lowest 0-based index where sub occurs in s, or -1.
Find(s, sub) ==
    LET hits == {i \in 0..(Len(s) - Len(sub)) : OccursAt(s, sub, i)}
    IN  IF hits = {} THEN -1 ELSE SetMin(hits)

\* s.rfind(sub): the highest such index, or -1.
RFind(s, sub) ==
    LET hits == {i \in 0..(Len(s) - Len(sub)) : OccursAt(s, sub, i)}
    IN  IF hits = {} THEN -1 ELSE SetMax(hits)

\* A slice bound as Python clamps it: negative counts from the end.
Clamp(s, i) ==
    IF i < 0 THEN (IF Len(s) + i < 0 THEN 0 ELSE Len(s) + i)
    ELSE (IF i > Len(s) THEN Len(s) ELSE i)

\* s[i:j]
Slice(s, i, j) == SubSeq(s, Clamp(s, i) + 1, Clamp(s, j))

\* os.path.basename(p): what follows the last "/".
Basename(p) == Slice(p, RFind(p, Slash) + 1, Len(p))

EmptyDict == [k \in {} |-> FALSE]

\* d[k] = v
DictSet(d, k, v) == [x \in (DOMAIN d) \cup {k} |-> IF x = k THEN v ELSE d[x]]

----------------------------------------------------------------------------
(* The outside world, as far as one fetch sees it *)

FileStates == {"enabled", "disabled", "static"}

\* Unit files the init system may know: three services (one an instance
\* of a template) and a socket.
Units == { [base |-> N_xinetd, suffix |-> DotService],
           [base |-> N_sshd,   suffix |-> DotService],
           [base |-> N_getty,  suffix |-> DotService],
           [base |-> N_cups,   suffix |-> DotSocket] }

UnitPath(u) == UnitDir \o u.base \o u.suffix

\* The paths, computed once
PathOf == [u \in Units |-> UnitPath(u)]
InitScriptOf == [u \in Units |-> InitDir \o u.base]

\* What is on disk for a unit file: a regular file, a symlink to one,
\* only a SysV init script of that name, or nothing.
DiskCases == { [isfile |-> TRUE,  islink |-> FALSE, legacy |-> FALSE],
               [isfile |-> TRUE,  islink |-> TRUE,  legacy |-> FALSE],
               [isfile |-> FALSE, islink |-> FALSE, legacy |-> TRUE],
               [isfile |-> FALSE, islink |-> FALSE, legacy |-> FALSE] }

RegularFile == [isfile |-> TRUE, islink |-> FALSE, legacy |-> FALSE]

ServiceUnits == {u \in Units : u.suffix = DotService /\ u.base # N_getty}

\* Every unit file in every state and disk case, and the common case:
\* plain service units that are regular files.
UnitFileEntries == [unit : Units, st : FileStates, disk : DiskCases]
RegularEntries == [unit : ServiceUnits, st : FileStates, disk : {RegularFile}]

SeqsUpTo(S, n) == UNION {[1..k -> S] : k \in 0..n}

\* One world: whether the unit-file listing fails, the unit files it
\* lists (in order), and the services `service <name> status` finds running.
WorldsOver(entries) ==
    [failing : {FALSE}, files : SeqsUpTo(entries, MaxUnitFiles),
     running : SUBSET {N_xinetd, N_sshd}]
    \cup
    [failing : {TRUE}, files : {<<>>}, running : {{}}]

Worlds == WorldsOver(RegularEntries)
AllWorlds == WorldsOver(UnitFileEntries)

NoWorld == [failing |-> FALSE, files |-> <<>>, running |-> {}]

\* The live listing the manager would report (ListUnits): xinetd loaded
\* and running.  A tuple as pystemd gives it: name, description, load
\* state, active state, sub state, followed, object path.
LiveXinetd == << N_xinetd \o DotService, <<"X">>, "loaded", "active",
                 "running", <<>>, <<"/", "x">> >>
ListUnits == << LiveXinetd >>

\* os.path.isfile(p), os.path.islink(p) in world w
IsFile(w, p) ==
    \E i \in 1..Len(w.files) :
        \/ w.files[i].disk.isfile /\ p = PathOf[w.files[i].unit]
        \/ w.files[i].disk.legacy /\ p = InitScriptOf[w.files[i].unit]
IsLink(w, p) ==
    \E i \in 1..Len(w.files) :
        w.files[i].disk.islink /\ p = PathOf[w.files[i].unit]

\* manager.ListUnitFiles(): (path, state) pairs
ListUnitFiles(w) ==
    [i \in 1..Len(w.files) |-> <<PathOf[w.files[i].unit], w.files[i].st>>]

\* manager.GetUnitFileState(unitName): the state of the listed file of
\* that name, "" when there is none.
GetUnitFileState(w, unitName) ==
    LET hits == {i \in 1..Len(w.files) :
                    w.files[i].unit.base \o w.files[i].unit.suffix = unitName}
    IN  IF hits = {} THEN "" ELSE w.files[SetMin(hits)].st

\* run(["/usr/sbin/service", name, "status"]).returncode
ServiceStatus(w, name) == IF name \in w.running THEN 0 ELSE 3

----------------------------------------------------------------------------
(* Calls to the outside *)

Call(fn, on, flag, target) ==
    [fn |-> fn, on |-> on, flag |-> flag, target |-> target]

\* The bus property, then the manager property: each handle is created on
\* first use and kept.
BusCalls(bus) ==
    IF bus THEN <<>> ELSE <<Call("DBus", "pystemd", "interactive", <<>>)>>
ManagerCalls(bus, manager) ==
    IF manager THEN <<>>
    ELSE BusCalls(bus) \o <<Call("Manager", "pystemd", "bus", <<>>)>>

----------------------------------------------------------------------------
(* service_info *)

\* A read that never takes the early return of line 65
CacheHitNever(reload) == FALSE

\* line 64: the cached map is returned when the dirty flag is down
CacheHit(reload) == ~reload

\* line 67: the live listing is not queried
units == <<>>

\* lines 71-91: the pass over the live units; acc = [s: the map, c: calls]
RECURSIVE LivePass(_, _, _, _)
LivePass(us, w, include_static, acc) ==
    IF us = <<>> THEN acc
    ELSE
      LET u == Head(us)
          unitName == u[1]
          pos == Find(unitName, DotService)
          asked == pos # -1 /\ Find(unitName, At) = -1
          st == GetUnitFileState(w, unitName)
          name == Slice(unitName, 0, pos)
          kept == asked /\ st # "" /\ (include_static \/ st # "static")
          entry == [name         |-> u[1],
                    description  |-> u[2],
                    load_state   |-> u[3],
                    active_state |-> u[4],
                    sub_state    |-> u[5],
                    unit_path    |-> u[7],
                    enabled      |-> (st = "enabled")]
      IN  LivePass(Tail(us), w, include_static,
            [s |-> IF kept THEN DictSet(acc.s, name, entry) ELSE acc.s,
             c |-> IF asked
                   THEN Append(acc.c, Call("GetUnitFileState", "manager",
                                           "", unitName))
                   ELSE acc.c])

\* Lines 101-103 without the os.path.islink test
ProbedThroughLinks(w, services, unitName, name, st) ==
    /\ name \notin DOMAIN services
    /\ Find(name, At) = -1
    /\ (IsFile(w, unitName) \/ IsFile(w, InitDir \o name))
    /\ (st = "disabled" \/ st = "enabled")

\* lines 101-103: whether a listed unit file gets an entry
Probed(w, services, unitName, name, st) ==
    /\ name \notin DOMAIN services
    /\ Find(name, At) = -1
    /\ (IsFile(w, unitName) \/ IsFile(w, InitDir \o name))
    /\ ~IsLink(w, unitName)
    /\ (st = "disabled" \/ st = "enabled")

\* lines 105-115: the entry of a probed unit file
ProbedEntry(name, st, returncode) ==
    [name         |-> name \o DotService,
     description  |-> Placeholder,
     active_state |-> IF returncode = 0 THEN "active" ELSE "inactive",
     enabled      |-> (st = "enabled")]

\* lines 97, 99-100: where ".service" occurs in a listed path, and the
\* base name cut from it
ParseUnitFile(unitName) ==
    LET base == Basename(unitName)
    IN  [pos |-> Find(unitName, DotService),
         name |-> Slice(base, 0, Find(base, DotService))]

\* ParseUnitFile of every path a world lists, computed once
Parsed == [unitName \in {UnitPath(u) : u \in Units} |->
              ParseUnitFile(unitName)]

\* lines 94-115: the pass over the unit files
RECURSIVE UnitFilePass(_, _, _)
UnitFilePass(unit_files, w, acc) ==
    IF unit_files = <<>> THEN acc
    ELSE
      LET u == Head(unit_files)
          unitName == u[1]
          st == u[2]
          pos == Parsed[unitName].pos
          name == Parsed[unitName].name
          add == pos # -1 /\ Probed(w, acc.s, unitName, name, st)
      IN  UnitFilePass(Tail(unit_files), w,
            [s |-> IF add
                   THEN DictSet(acc.s, name,
                          ProbedEntry(name, st, ServiceStatus(w, name)))
                   ELSE acc.s,
             c |-> IF add
                   THEN Append(acc.c, Call("run", "/usr/sbin/service",
                                           "status", name))
                   ELSE acc.c])

----------------------------------------------------------------------------
(* The record of the last operation *)

NoEnv == [legacy |-> FALSE, outcome |-> "none", stdout |-> <<>>]

Did(op, service, enable, w, env, fetched, result, ret) ==
    [op |-> op, service |-> service, enable |-> enable, world |-> w,
     env |-> env, fetched |-> fetched, result |-> result, ret |-> ret]

Init ==
    /\ include_static_services = FALSE
    /\ _reload = TRUE
    /\ _services = EmptyDict
    /\ _xinetd_services = EmptyDict
    /\ _bus = FALSE
    /\ __manager = FALSE
    /\ calls = <<>>
    /\ last = Did("__init__", <<>>, FALSE, NoWorld, NoEnv, FALSE, "ok", "None")
    /\ hist = [fetch |-> "none", static |-> FALSE, read |-> FALSE,
               snapshot |-> EmptyDict]

\* The caller assigns the public attribute include_static_services.
set_include_static_services ==
    \E b \in BOOLEAN :
        /\ include_static_services' = b
        /\ calls' = <<>>
        /\ last' = Did("include_static_services", <<>>, b, NoWorld, NoEnv,
                       FALSE, "ok", "None")
        /\ UNCHANGED <<_reload, _services, _xinetd_services, _bus, __manager,
                       hist>>

\* lines 64-117: one read of the property, in world w, by operation op.
\* `after` is the outcome of op when the read returns.
Read(op, arg, w, after) ==
    IF CacheHit(_reload)
    THEN
        /\ calls' = <<>>
        /\ last' = Did(op, <<>>, arg, NoWorld, NoEnv, FALSE, after, _services)
        /\ hist' = IF hist.read THEN hist
                   ELSE [hist EXCEPT !.read = TRUE, !.snapshot = _services]
        /\ UNCHANGED <<_reload, _services, _bus, __manager>>
    ELSE
        LET live == LivePass(units, w, include_static_services,
                             [s |-> EmptyDict, c |-> <<>>])
            asked == ManagerCalls(_bus, __manager) \o live.c
                     \o <<Call("ListUnitFiles", "manager", "", <<>>)>>
            done == UnitFilePass(ListUnitFiles(w), w,
                                 [s |-> live.s, c |-> asked])
        IN  /\ _reload' = FALSE
            /\ _bus' = (_bus \/ ~__manager)
            /\ __manager' = TRUE
            /\ IF w.failing
               THEN /\ _services' = live.s
                    /\ calls' = asked
                    /\ last' = Did(op, <<>>, arg, w, NoEnv, TRUE,
                                   "DBusError", "None")
                    /\ hist' = [hist EXCEPT !.fetch = "aborted",
                                   !.static = include_static_services]
               ELSE /\ _services' = done.s
                    /\ calls' = done.c
                    /\ last' = Did(op, <<>>, arg, w, NoEnv, TRUE, after,
                                   done.s)
                    /\ hist' = [fetch |-> "complete",
                                static |-> include_static_services,
                                read |-> TRUE,
                                snapshot |-> IF hist.read THEN hist.snapshot
                                             ELSE done.s]

\* lines 57-117, unit files being regular files
service_info ==
    /\ IF CacheHit(_reload) THEN Read("service_info", FALSE, NoWorld, "ok")
       ELSE \E w \in Worlds : Read("service_info", FALSE, w, "ok")
    /\ UNCHANGED <<include_static_services, _xinetd_services>>

\* lines 57-117, unit files in every disk case
service_info_any_disk ==
    /\ IF CacheHit(_reload) THEN Read("service_info", FALSE, NoWorld, "ok")
       ELSE \E w \in AllWorlds : Read("service_info", FALSE, w, "ok")
    /\ UNCHANGED <<include_static_services, _xinetd_services>>

\* Lines 124-130 with the KeyError handler answering True
IsServiceRunningUnlessKnown(services, service) ==
    IF service \in DOMAIN services
    THEN services[service].active_state = "active"
    ELSE TRUE

\* lines 124-130
IsServiceRunning(services, service) ==
    IF service \in DOMAIN services
    THEN services[service].active_state = "active"
    ELSE FALSE

ServiceNames == {N_xinetd, N_sshd, N_ftp}

is_service_running ==
    \E service \in ServiceNames :
        /\ calls' = <<>>
        /\ last' = Did("is_service_running", service, FALSE, NoWorld, NoEnv,
                       FALSE, "ok", IsServiceRunning(_services, service))
        /\ UNCHANGED <<include_static_services, _reload, _services,
                       _xinetd_services, _bus, __manager, hist>>

HelperOutcomes == {"ok", "nonzero", "timeout"}
BusOutcomes == {"ok", "error"}

\* line 140: ser_info['enabled'] == 'enabled' compares the entry's bool
\* with a str, and a Python bool never equals a str.
EnabledEqualsStr(enabled, str) == FALSE

\* What chkconfig --list --type xinetd may print: lines of fields.
On == <<"o", "n">>
Off == <<"o", "f", "f">>
XinetdOutputs ==
    { << <<N_ftp \o Colon, On>> >>,
      << <<N_ftp \o Colon, Off>>, <<N_cups>>, <<N_sshd \o Colon, On>> >> }

\* lines 132-158
xinetd_services ==
    /\ IF /\ N_xinetd \in DOMAIN _services
          /\ EnabledEqualsStr(_services[N_xinetd].enabled, "enabled")
       THEN \E outcome \in HelperOutcomes, stdout \in XinetdOutputs :
              \* line 147 reads the undefined name serv, line 156 the
              \* undefined name stderr: NameError on either path
              /\ calls' = <<Call("run", "/usr/sbin/chkconfig", "--list",
                                 N_xinetd)>>
              /\ last' = Did("xinetd_services", <<>>, FALSE, NoWorld,
                             [legacy |-> FALSE, outcome |-> outcome,
                              stdout |-> stdout],
                             FALSE, "NameError", "None")
       ELSE /\ calls' = <<>>
            /\ last' = Did("xinetd_services", <<>>, FALSE, NoWorld, NoEnv,
                           FALSE, "ok", "None")
    /\ UNCHANGED <<include_static_services, _reload, _services,
                   _xinetd_services, _bus, __manager, hist>>

\* lines 174, 187, 193: which backend a name is dispatched to
Backend(service, xinetd, legacy) ==
    IF service \in DOMAIN xinetd THEN "xinetd"
    ELSE IF ~legacy THEN "systemd"
    ELSE "legacy"

\* Line 188 left out: the bare name goes to the bus
UnitNameBare(service) == service

\* line 188
UnitName(service) == service \o DotService

\* Lines 197-198 handing chkconfig the unit name instead of the bare name
HelperCallOnUnit(service, enable) ==
    Call("run", "/usr/bin/pkexec /usr/sbin/chkconfig",
         IF enable THEN "--add" ELSE "--del", service \o DotService)

\* lines 177-178, 197-198
HelperCall(service, enable) ==
    Call("run", "/usr/bin/pkexec /usr/sbin/chkconfig",
         IF enable THEN "--add" ELSE "--del", service)

\* lines 189-192
BusCall(service, enable) ==
    Call(IF enable THEN "EnableUnitFiles" ELSE "DisableUnitFiles", "bus",
         IF enable THEN "False, True" ELSE "False", UnitName(service))

\* lines 180-183, 200-203: the handler prints the undefined name stderr
HelperResult(outcome) == IF outcome = "ok" THEN "ok" ELSE "NameError"

\* lines 167-203
set_service ==
    \E service \in ServiceNames, enable \in BOOLEAN, legacy \in BOOLEAN :
      LET backend == Backend(service, _xinetd_services, legacy) IN
      \E outcome \in IF backend = "systemd" THEN BusOutcomes
                      ELSE HelperOutcomes :
        LET env == [legacy |-> legacy, outcome |-> outcome, stdout |-> <<>>]
        IN
        /\ IF backend = "systemd"
           THEN /\ calls' = BusCalls(_bus) \o <<BusCall(service, enable)>>
                /\ _bus' = TRUE
                /\ last' = Did("set_service", service, enable, NoWorld, env,
                               FALSE,
                               IF outcome = "ok" THEN "ok" ELSE "DBusError",
                               "None")
           ELSE /\ calls' = <<HelperCall(service, enable)>>
                /\ _bus' = _bus
                /\ last' = Did("set_service", service, enable, NoWorld, env,
                               FALSE, HelperResult(outcome), "None")
        /\ UNCHANGED <<include_static_services, _reload, _services,
                       _xinetd_services, __manager, hist>>

\* lines 160-165: self.service_info is a property, so self.service_info()
\* reads it and then calls the dict it returned.
_systemd_services ==
    /\ \E reload \in BOOLEAN :
         IF reload
         THEN IF CacheHit(_reload)
              THEN Read("_systemd_services", TRUE, NoWorld, "TypeError")
              ELSE \E w \in Worlds :
                     Read("_systemd_services", TRUE, w, "TypeError")
         ELSE /\ calls' = <<>>
              /\ last' = Did("_systemd_services", <<>>, FALSE, NoWorld,
                             NoEnv, FALSE, "ok", "None")
              /\ UNCHANGED <<_reload, _services, _bus, __manager, hist>>
    /\ UNCHANGED <<include_static_services, _xinetd_services>>

Next ==
    \/ set_include_static_services
    \/ service_info
    \/ is_service_running
    \/ xinetd_services
    \/ set_service
    \/ _systemd_services

Spec == Init /\ [][Next]_vars

\* The fetch alone, over every disk case: the caller has set
\* include_static_services either way before the first read.
FetchInit ==
    /\ include_static_services \in BOOLEAN
    /\ _reload = TRUE
    /\ _services = EmptyDict
    /\ _xinetd_services = EmptyDict
    /\ _bus = FALSE
    /\ __manager = FALSE
    /\ calls = <<>>
    /\ last = Did("__init__", <<>>, FALSE, NoWorld, NoEnv, FALSE, "ok", "None")
    /\ hist = [fetch |-> "none", static |-> FALSE, read |-> FALSE,
               snapshot |-> EmptyDict]

FetchSpec == FetchInit /\ [][service_info_any_disk]_vars

----------------------------------------------------------------------------
(* Properties *)

FetchedNow == last.op = "service_info" /\ last.fetched /\ last.result = "ok"

BusCallsMade ==
    {i \in 1..Len(calls) :
        calls[i].fn \in {"EnableUnitFiles", "DisableUnitFiles"}}
HelperCallsMade ==
    {i \in 1..Len(calls) :
        calls[i].fn = "run" /\ calls[i].on = "/usr/bin/pkexec /usr/sbin/chkconfig"}
\* C1: once a read of service_info has completed, every later read of
\* service_info returns the map the first one returned, runs no fetch and
\* makes no call to the outside, whatever was called or assigned in between.
C1_CachedReadIsFree ==
    [][(hist.read /\ last'.op = "service_info")
        => /\ ~last'.fetched
           /\ last'.result = "ok"
           /\ last'.ret = hist.snapshot
           /\ _services' = hist.snapshot
           /\ calls' = <<>>]_vars

\* A cached read of a non-empty map, fetched under the other value of
\* include_static_services.
C1_Witness ==
    /\ last.op = "service_info" /\ ~last.fetched
    /\ hist.fetch = "complete"
    /\ include_static_services # hist.static
    /\ _services # EmptyDict

\* C2: is_service_running(name) returns normally, true iff the cache holds
\* an entry for name whose active_state is "active" (false when it holds
\* none, also before any fetch), and changes neither the cache nor the
\* dirty flag and makes no call.
C2_RunningIsCacheLookup ==
    [][last'.op = "is_service_running"
        => /\ last'.result = "ok"
           /\ last'.ret = (\E n \in DOMAIN _services :
                              /\ n = last'.service
                              /\ _services[n].active_state = "active")
           /\ _services' = _services
           /\ _reload' = _reload
           /\ hist' = hist
           /\ calls' = <<>>]_vars

\* is_service_running answered true from a fetched cache.
C2_Witness ==
    /\ last.op = "is_service_running"
    /\ last.ret = TRUE
    /\ last.service \in DOMAIN _services

\* C3: set_service on a name outside the xinetd map and without an init
\* script makes exactly one enable/disable call on the bus, the one enable
\* asks for, with name + ".service", and runs no privileged helper.
C3_SystemdDispatch ==
    (/\ last.op = "set_service"
     /\ last.service \notin DOMAIN _xinetd_services
     /\ ~last.env.legacy)
    => /\ Cardinality(BusCallsMade) = 1
       /\ \A i \in BusCallsMade :
             /\ calls[i].fn = IF last.enable THEN "EnableUnitFiles"
                              ELSE "DisableUnitFiles"
             /\ calls[i].target = last.service \o DotService
       /\ HelperCallsMade = {}

\* sshd enabled through the bus.
C3_Witness ==
    /\ last.op = "set_service" /\ last.service = N_sshd /\ last.enable
    /\ ~last.env.legacy
    /\ \E i \in 1..Len(calls) : calls[i].fn = "EnableUnitFiles"

\* C4: set_service on a name outside the xinetd map that has an init script
\* runs the privileged chkconfig helper exactly once, with --add when
\* enabling and --del when disabling and the bare name, and makes no
\* enable/disable call on the bus.
C4_LegacyDispatch ==
    (/\ last.op = "set_service"
     /\ last.service \notin DOMAIN _xinetd_services
     /\ last.env.legacy)
    => /\ Cardinality(HelperCallsMade) = 1
       /\ \A i \in HelperCallsMade :
             /\ calls[i].flag = IF last.enable THEN "--add" ELSE "--del"
             /\ calls[i].target = last.service
       /\ BusCallsMade = {}

\* sshd, which has an init script, disabled through chkconfig --del.
C4_Witness ==
    /\ last.op = "set_service" /\ last.service = N_sshd /\ ~last.enable
    /\ last.env.legacy
    /\ \E i \in 1..Len(calls) : calls[i].flag = "--del"

\* C5: when the privileged helper run by set_service exits nonzero or times
\* out, set_service returns normally and the cache, the dirty flag and the
\* xinetd map are as before.
C5_HelperFailureIsSwallowed ==
    [][(/\ last'.op = "set_service"
        /\ last'.env.outcome \in {"nonzero", "timeout"})
        => /\ last'.result = "ok"
           /\ _services' = _services
           /\ _reload' = _reload
           /\ _xinetd_services' = _xinetd_services]_vars

\* The live units that the unit-file listing of world w names as well
ListedTwice(w) ==
    {i \in 1..Len(ListUnits) :
        \E j \in 1..Len(w.files) :
            /\ w.files[j].unit.base \o w.files[j].unit.suffix = ListUnits[i][1]
            /\ (w.files[j].st # "static" \/ include_static_services)}

\* C6: after a fetch, a service unit named by the live listing and by the
\* unit-file listing has its entry under its base name, carrying the live
\* listing's description, load, active and sub state and unit path.
C6_LiveDataWins ==
    FetchedNow =>
        \A i \in ListedTwice(last.world) :
            LET u == ListUnits[i]
                name == SubSeq(u[1], 1, Len(u[1]) - Len(DotService))
            IN  /\ name \in DOMAIN _services
                /\ DOMAIN _services[name] =
                      {"name", "description", "load_state", "active_state",
                       "sub_state", "unit_path", "enabled"}
                /\ _services[name].description = u[2]
                /\ _services[name].load_state = u[3]
                /\ _services[name].active_state = u[4]
                /\ _services[name].sub_state = u[5]
                /\ _services[name].unit_path = u[7]

HasAt(name) == \E k \in 1..Len(name) : name[k] = "@"

\* C7: after a fetch, a service unit that is no template instance and whose
\* file state is "static" is in the map iff include_static_services was
\* true when the fetch ran.
C7_StaticFollowsFlag ==
    FetchedNow =>
        \A j \in 1..Len(last.world.files) :
            LET e == last.world.files[j]
            IN  (e.unit.suffix = DotService /\ ~HasAt(e.unit.base)
                 /\ e.st = "static"
                 /\ \A k \in 1..Len(last.world.files) :
                       last.world.files[k].unit = e.unit
                       => last.world.files[k].st = "static")
                => (e.unit.base \in DOMAIN _services
                    <=> include_static_services)

RECURSIVE StripColons(_)
StripColons(f) ==
    IF f # <<>> /\ Head(f) = ":" THEN StripColons(Tail(f))
    ELSE IF f # <<>> /\ f[Len(f)] = ":"
         THEN StripColons(SubSeq(f, 1, Len(f) - 1))
    ELSE f

\* name -> (second field is "on"), over the lines with two fields or more
XinetdMapOf(lines) ==
    LET good == {i \in 1..Len(lines) : Len(lines[i]) >= 2}
        names == {StripColons(lines[i][1]) : i \in good}
    IN  [n \in names |->
            lines[SetMax({i \in good : StripColons(lines[i][1]) = n})][2] = On]

\* C8: with an enabled "xinetd" entry in the cache, xinetd_services runs the
\* chkconfig listing and, when it succeeds, the xinetd map holds name ->
\* (second field is "on") for each line of two fields or more; without a
\* "xinetd" entry the call does nothing.
C8_XinetdListing ==
    last.op = "xinetd_services" =>
        IF N_xinetd \in DOMAIN _services
        THEN _services[N_xinetd].enabled
             => /\ \E i \in 1..Len(calls) :
                      calls[i].fn = "run" /\ calls[i].flag = "--list"
                /\ last.env.outcome = "ok"
                      => _xinetd_services = XinetdMapOf(last.env.stdout)
        ELSE calls = <<>> /\ last.result = "ok"

\* A listed unit file that the unit-file pass is to give an entry: a
\* ".service" file, no template instance, a regular file on disk (itself
\* or as an init script), no symlink, enabled or disabled.
Eligible(w, e) ==
    /\ e.unit.suffix = DotService
    /\ ~HasAt(e.unit.base)
    /\ \/ IsFile(w, UnitDir \o e.unit.base \o e.unit.suffix)
       \/ IsFile(w, InitDir \o e.unit.base)
    /\ ~IsLink(w, UnitDir \o e.unit.base \o e.unit.suffix)
    /\ e.st \in {"enabled", "disabled"}

FirstEligible(w, name) ==
    w.files[SetMin({j \in 1..Len(w.files) :
                      w.files[j].unit.base = name /\ Eligible(w, w.files[j])})]

\* C9: a fetch's map holds exactly the base names that have an eligible
\* listed unit file; the entry of each is "active" iff the status probe of
\* the name exits 0, and enabled iff the file state (of the first eligible
\* file of that name) is "enabled".
C9_UnitFilePass ==
    FetchedNow =>
        LET w == last.world
        IN  /\ DOMAIN _services =
                  {w.files[j].unit.base :
                      j \in {k \in 1..Len(w.files) : Eligible(w, w.files[k])}}
            /\ \A name \in DOMAIN _services :
                  /\ _services[name].active_state =
                        IF name \in w.running THEN "active" ELSE "inactive"
                  /\ _services[name].enabled =
                        (FirstEligible(w, name).st = "enabled")

\* A fetch that gave an entry to a running service known only by its init
\* script, and none to a listed service whose unit file is a symlink.
C9_Witness ==
    /\ FetchedNow
    /\ Len(last.world.files) = 2
    /\ last.world.files[1].disk.islink
    /\ last.world.files[1].unit.base = N_sshd
    /\ last.world.files[1].st = "enabled"
    /\ last.world.files[2].disk.legacy
    /\ N_xinetd \in DOMAIN _services
    /\ _services[N_xinetd].active_state = "active"
    /\ N_sshd \notin DOMAIN _services

\* C10: whenever the cache is marked fresh, its map is the result of a
\* fetch that ran to its end.
C10_FreshMeansFetched ==
    ~_reload => hist.fetch = "complete"

====
